---- MODULE Spec2Model ----
(***************************************************************************)
(* The application status-update flow of the marketplace backend:          *)
(* PUT /applications/:id/status (controllers/application.ts,               *)
(* updateApplicationStatus), the notification and ledger services it       *)
(* calls, the Transaction model's save hooks, and the job controller's     *)
(* completeJob.                                                            *)
(*                                                                         *)
(* Each HTTP request is a process (a slot of Reqs).  A request advances    *)
(* one await at a time, so that two requests interleave exactly where the  *)
(* handler yields: after the load, after the save, and after each side     *)
(* effect.  The checks before the load read only data that no operation    *)
(* of this model changes (roles, job ownership), so they form one step     *)
(* with the load.                                                          *)
(*                                                                         *)
(* Monetary values are held in hundredths of the currency unit: for an     *)
(* integral amount a and an integral percentage p, a * p / 100 is exactly  *)
(* a * p hundredths.                                                       *)
(***************************************************************************)
EXTENDS Integers, FiniteSets, Sequences, Bags, TLC

VARIABLES
    applications,    \* Application documents: id -> [job, applicant, status,
                     \*   createdAt, updatedAt]
    jobs,            \* Job documents: id -> [postedBy, status, salaryMin, salaryMax,
                     \*   applicationsCount]
    hiresCount,      \* user -> employerProfile.hiresCount
    rejectionsCount, \* user -> employerProfile.rejectionsCount
    hiringStats,     \* user -> employerProfile.hiringStats
    financialStats,  \* user -> the employer and specialist financialStats counters
    transactions,    \* bag of Transaction documents
    notifications,   \* bag of Notification documents
    pc,              \* request -> position in the handler
    req,             \* request -> the handler's local variables
    dirty,           \* request -> has this request changed any stored document
    calls,           \* number of requests started so far
    lastPayment,     \* the arguments and outcome of the last direct createJobPayment call
    jobCall,         \* the arguments and answer of the last completeJob request
    jobDeletion,     \* the deleteJob request: its position, arguments and answer
    applying,        \* applyForJob request -> its position, arguments and answer
    uncounted        \* job -> applications stored by a request whose count update failed

db == <<applications, jobs, hiresCount, rejectionsCount, hiringStats,
        financialStats, transactions, notifications>>
vars == <<applications, jobs, hiresCount, rejectionsCount, hiringStats,
          financialStats, transactions, notifications, pc, req, dirty, calls,
          lastPayment, jobCall, jobDeletion, applying, uncounted>>

(* ------------------------------ bounds -------------------------------- *)
MaxCalls == 2
MaxPayments == 2

(* ----------------------------- the data ------------------------------- *)
Reqs == {"r1", "r2"}
Users == {"e1", "e2", "s1", "s2"}
JobIds == {"j1", "j2"}
AppIds == {"a1", "a2"}
MissingApp == "a0"
MissingJob == "j0"

RoleOf(u) == IF u \in {"e1", "e2"} THEN "partner" ELSE "specialist"

\* ApplicationSchema.status enum
ApplicationStatuses == {"pending", "reviewed", "accepted", "rejected"}

\* what a client may send as body.status
RequestedStatuses == ApplicationStatuses \cup {"withdrawn"}

\* TransactionSchema.status enum
TransactionStatuses == {"pending", "completed", "failed"}

\* the users that send requests: the owner of both jobs, another partner and
\* the applicant of a1
Actors == {"e1", "e2", "s1"}

\* salaries the two jobs may carry; 0 stands for an absent (or zero) field,
\* which JavaScript's || treats alike
SalaryConfigs ==
    { [j \in JobIds |-> IF j = "j1" THEN [min |-> 500, max |-> 1000]
                                    ELSE [min |-> 300, max |-> 0]],
      [j \in JobIds |-> IF j = "j1" THEN [min |-> 0, max |-> 1005]
                                    ELSE [min |-> 0, max |-> 0]] }

NoStats == [totalSpent |-> 0, employerTransactions |-> 0,
            totalEarned |-> 0, specialistTransactions |-> 0]

\* EmployerProfileSchema.hiringStats as a new profile holds it: the counters
\* default to 0, the two rates have no default ({} is an absent field)
NoHiringStats == [totalApplicationsReceived |-> 0, totalHires |-> 0,
                  totalRejections |-> 0, hiringSuccessRate |-> {},
                  responseRate |-> {}]

NoPayment == [amount |-> 0, pct |-> {}, outcome |-> "none"]

NoJobCall == [actor |-> "e1", job |-> MissingJob, code |-> 0]

NoJobDeletion == [pc |-> "idle", actor |-> "e1", job |-> MissingJob, code |-> 0]

\* the slots of applyForJob requests, and the ids their applications get
Applies == {"p1", "p2"}
NewAppIds == {"a3", "a4", "a5"}
NoApply == [pc |-> "idle", actor |-> "s1", job |-> MissingJob, app |-> MissingApp,
            code |-> 0]

\* arguments of direct createJobPayment calls: amounts in whole currency
\* units, and the optional platformFeePercentage ({} when not supplied)
PaymentAmounts == {-5, 0, 7, 1000, 1005}
PaymentPercentages == {{}, {0}, {10}, {15}, {100}, {150}}

NoReq == [actor |-> "e1", app |-> MissingApp, status |-> "pending",
          previousStatus |-> "pending", outcome |-> "none", code |-> 0,
          warn |-> "none"]

Init ==
    /\ applications = [a \in AppIds |->
          IF a = "a1" THEN [job |-> "j1", applicant |-> "s1", status |-> "pending",
                            createdAt |-> 0, updatedAt |-> 0]
                      ELSE [job |-> "j2", applicant |-> "s2", status |-> "pending",
                            createdAt |-> 0, updatedAt |-> 0]]
    /\ \E c \in SalaryConfigs :
          jobs = [j \in JobIds |->
             [postedBy |-> "e1", status |-> "active",
              salaryMin |-> c[j].min, salaryMax |-> c[j].max,
              applicationsCount |-> 1]]
    /\ hiresCount = [u \in Users |-> 0]
    /\ rejectionsCount = [u \in Users |-> 0]
    /\ hiringStats = [u \in Users |-> NoHiringStats]
    /\ financialStats = [u \in Users |-> NoStats]
    /\ transactions = EmptyBag
    /\ notifications = EmptyBag
    /\ pc = [r \in Reqs |-> "idle"]
    /\ req = [r \in Reqs |-> NoReq]
    /\ dirty = [r \in Reqs |-> FALSE]
    /\ calls = 0
    /\ lastPayment = NoPayment
    /\ jobCall = NoJobCall
    /\ jobDeletion = NoJobDeletion
    /\ applying = [p \in Applies |-> NoApply]
    /\ uncounted = [j \in JobIds |-> 0]

\* the same data after s2 has applied for j1 instead of j2: both
\* applications are on one job
InitSameJob ==
    /\ applications = [a \in AppIds |->
          [job |-> "j1", applicant |-> IF a = "a1" THEN "s1" ELSE "s2",
           status |-> "pending", createdAt |-> 0, updatedAt |-> 0]]
    /\ \E c \in SalaryConfigs :
          jobs = [j \in JobIds |->
             [postedBy |-> "e1", status |-> "active",
              salaryMin |-> c[j].min, salaryMax |-> c[j].max,
              applicationsCount |-> IF j = "j1" THEN 2 ELSE 0]]
    /\ hiresCount = [u \in Users |-> 0]
    /\ rejectionsCount = [u \in Users |-> 0]
    /\ hiringStats = [u \in Users |-> NoHiringStats]
    /\ financialStats = [u \in Users |-> NoStats]
    /\ transactions = EmptyBag
    /\ notifications = EmptyBag
    /\ pc = [r \in Reqs |-> "idle"]
    /\ req = [r \in Reqs |-> NoReq]
    /\ dirty = [r \in Reqs |-> FALSE]
    /\ calls = 0
    /\ lastPayment = NoPayment
    /\ jobCall = NoJobCall
    /\ jobDeletion = NoJobDeletion
    /\ applying = [p \in Applies |-> NoApply]
    /\ uncounted = [j \in JobIds |-> 0]

(* ----------------- the request validator and the checks ---------------- *)
\* mutant: the validator also admits "withdrawn"
updateApplicationStatusValidation_AdmitsWithdrawn(status) ==
    status \in {"pending", "reviewed", "accepted", "rejected", "withdrawn"}

\* vallidations/application.validation.ts: body("status").isIn([...])
updateApplicationStatusValidation(status) ==
    status \in {"pending", "reviewed", "accepted", "rejected"}

\* user.role !== "partner" is refused
IsPartner(userId) == RoleOf(userId) = "partner"

\* mutant: the ownership comparison is missing
OwnsJob_Anyone(applicationId, userId) == applicationId \in DOMAIN applications

\* (application.job as any).postedBy.toString() !== userId is refused
OwnsJob(applicationId, userId) ==
    jobs[applications[applicationId].job].postedBy = userId

\* mutant: the validator runs after the role check instead of before the handler
PreCheck_RoleFirst(userId, applicationId, status) ==
    IF ~IsPartner(userId) THEN "NotPartner"
    ELSE IF ~updateApplicationStatusValidation(status) THEN "ValidationError"
    ELSE IF applicationId \notin DOMAIN applications THEN "NotFound"
    ELSE IF applications[applicationId].job \notin DOMAIN jobs THEN "TypeError"
    ELSE IF ~OwnsJob(applicationId, userId) THEN "NotOwner"
    ELSE "ok"

\* How the request fares before the save: the refusal it ends with, "ok" when
\* it passes every check.  The route runs the validator before the handler.
\* populate("job") leaves null for a job that is gone, and reading postedBy
\* of null throws a TypeError, which the outer catch hands to next(error).
PreCheck(userId, applicationId, status) ==
    IF ~updateApplicationStatusValidation(status) THEN "ValidationError"
    ELSE IF ~IsPartner(userId) THEN "NotPartner"
    ELSE IF applicationId \notin DOMAIN applications THEN "NotFound"
    ELSE IF applications[applicationId].job \notin DOMAIN jobs THEN "TypeError"
    ELSE IF ~OwnsJob(applicationId, userId) THEN "NotOwner"
    ELSE "ok"

\* the HTTP status of each outcome (the ErrorResponse codes; 200 at the end)
StatusCode(outcome) ==
    CASE outcome = "ValidationError" -> 400
      [] outcome = "NotPartner" -> 403
      [] outcome = "NotFound" -> 404
      [] outcome = "NotOwner" -> 403
      [] outcome = "TypeError" -> 500
      [] OTHER -> 200

\* mutant: the ownership refusal lacks its `return`, and the handler runs on
Proceeds_AfterNotOwner(outcome) == outcome \in {"ok", "NotOwner"}

\* every refusal is `return next(new ErrorResponse(...))`: the handler stops
Proceeds(outcome) == outcome = "ok"

(* --------------------------- notifications ---------------------------- *)
Notification(recipient, sender, type, title, jobId, applicationId) ==
    [recipient |-> recipient, sender |-> sender, type |-> type, title |-> title,
     relatedJob |-> jobId, relatedApplication |-> applicationId]

\* mutant: the reviewed notification goes to the employer who sent the request
notifyApplicationReviewed_ToSender(recipient, sender, jobId, applicationId) ==
    Notification(sender, recipient, "application_accepted",
                 "Application Under Review", jobId, applicationId)

notifyApplicationReviewed(recipient, sender, jobId, applicationId) ==
    Notification(recipient, sender, "application_accepted",
                 "Application Under Review", jobId, applicationId)

notifyApplicationAccepted(recipient, sender, jobId, applicationId) ==
    Notification(recipient, sender, "application_accepted",
                 "Application Accepted!", jobId, applicationId)

notifyApplicationRejected(recipient, sender, jobId, applicationId) ==
    Notification(recipient, sender, "application_rejected",
                 "Application Update", jobId, applicationId)

notifyApplicationStatusChanged(recipient, sender, jobId, applicationId) ==
    Notification(recipient, sender, "job_posted",
                 "Application Status Update", jobId, applicationId)

\* NotificationService.notifyJobCompleted: no sender, no related application
notifyJobCompleted(recipientId, jobId, isEmployer) ==
    Notification(recipientId, "none", "job_completed",
                 IF isEmployer THEN "Job Completed" ELSE "Job Completed!",
                 jobId, "none")

\* NotificationService.notifyNewApplication: to the employer, from the applicant
notifyNewApplication(employerId, applicantId, jobId, applicationId) ==
    Notification(employerId, applicantId, "job_posted",
                 "New Application Received", jobId, applicationId)

\* mutant: the pending case notifies whatever the previous status
NotifiesPending_Always(previousStatus) == previousStatus \in ApplicationStatuses

\* case "pending": if (previousStatus !== "pending")
NotifiesPending(previousStatus) == previousStatus # "pending"

\* does the switch on the requested status send a notification
NotificationDue(status, previousStatus) ==
    \/ status \in {"reviewed", "accepted", "rejected"}
    \/ status = "pending" /\ NotifiesPending(previousStatus)

\* the notification the switch sends for the requested status
NotificationFor(status, recipient, sender, jobId, applicationId) ==
    CASE status = "reviewed" -> notifyApplicationReviewed(recipient, sender, jobId, applicationId)
      [] status = "accepted" -> notifyApplicationAccepted(recipient, sender, jobId, applicationId)
      [] status = "rejected" -> notifyApplicationRejected(recipient, sender, jobId, applicationId)
      [] OTHER -> notifyApplicationStatusChanged(recipient, sender, jobId, applicationId)

(* ------------------------------ ledger -------------------------------- *)
Hundredths(amount) == amount * 100

\* data.platformFeePercentage || 10; an absent percentage is the empty set
FeePercentage(pct) ==
    IF pct = {} \/ pct = {0} THEN 10 ELSE CHOOSE p \in pct : TRUE

\* (data.amount * platformFeePercentage) / 100
PlatformFee(amount, percentage) == (Hundredths(amount) * percentage) \div 100

\* data.amount - platformFee
NetAmount(amount, platformFee) == Hundredths(amount) - platformFee

\* mutant: netAmount subtracts the percentage instead of the fee
JobPayment_NetOfPercentage(jobId, employerId, specialistId, amount, pct) ==
    [type |-> "job_payment",
     amount |-> Hundredths(amount),
     platformFee |-> PlatformFee(amount, FeePercentage(pct)),
     netAmount |-> NetAmount(amount, Hundredths(FeePercentage(pct))),
     payer |-> employerId, payee |-> specialistId, job |-> jobId,
     status |-> "completed"]

\* the document createJobPayment builds
JobPayment(jobId, employerId, specialistId, amount, pct) ==
    [type |-> "job_payment",
     amount |-> Hundredths(amount),
     platformFee |-> PlatformFee(amount, FeePercentage(pct)),
     netAmount |-> NetAmount(amount, PlatformFee(amount, FeePercentage(pct))),
     payer |-> employerId, payee |-> specialistId, job |-> jobId,
     status |-> "completed"]

\* TransactionSchema: amount, platformFee and netAmount have min 0
TransactionValid(doc) ==
    /\ doc.amount >= 0
    /\ doc.platformFee >= 0
    /\ doc.netAmount >= 0

\* TransactionSchema.post("save"): the payer's and the payee's counters
TransactionPostSave(stats, doc) ==
    IF doc.status = "completed"
    THEN [u \in DOMAIN stats |->
            [totalSpent |-> stats[u].totalSpent
                              + (IF u = doc.payer THEN doc.amount ELSE 0),
             employerTransactions |-> stats[u].employerTransactions
                              + (IF u = doc.payer THEN 1 ELSE 0),
             totalEarned |-> stats[u].totalEarned
                              + (IF u = doc.payee THEN doc.netAmount ELSE 0),
             specialistTransactions |-> stats[u].specialistTransactions
                              + (IF u = doc.payee THEN 1 ELSE 0)]]
    ELSE stats

\* mutant: the fallback chain starts from salaryMin
PaymentAmount_MinFirst(job) ==
    IF job.salaryMin # 0 THEN job.salaryMin
    ELSE IF job.salaryMax # 0 THEN job.salaryMax
    ELSE 1000

\* job.salaryMax || job.salaryMin || 1000
PaymentAmount(job) ==
    IF job.salaryMax # 0 THEN job.salaryMax
    ELSE IF job.salaryMin # 0 THEN job.salaryMin
    ELSE 1000

(* ------------------- updateApplicationStatus, by await ----------------- *)
JobOf(r) == applications[req[r].app].job
ApplicantOf(r) == applications[req[r].app].applicant

\* a new request runs in the first slot that holds no running request
FirstFree == IF pc["r1"] \in {"idle", "done"} THEN "r1" ELSE "r2"

Touched(r) == dirty' = [dirty EXCEPT ![r] = @ \/ (db' # db)]

\* validator, User.findById, role check, Application.findById, owner check
Start(r, userId, applicationId, status) ==
    /\ pc[r] \in {"idle", "done"}
    /\ r = FirstFree
    /\ calls < MaxCalls
    /\ calls' = calls + 1
    /\ LET outcome == PreCheck(userId, applicationId, status) IN
         /\ req' = [req EXCEPT ![r] =
               [actor |-> userId, app |-> applicationId, status |-> status,
                previousStatus |-> IF applicationId \in DOMAIN applications
                                   THEN applications[applicationId].status
                                   ELSE "pending",
                outcome |-> outcome, code |-> StatusCode(outcome), warn |-> "none"]]
         /\ pc' = [pc EXCEPT ![r] = IF Proceeds(outcome) THEN "save" ELSE "done"]
    /\ dirty' = [dirty EXCEPT ![r] = FALSE]
    /\ UNCHANGED <<db, lastPayment, jobCall, jobDeletion, applying, uncounted>>

\* the time a save reads: the applications were created at 0, and a request
\* received later reads a later time
Now == calls

\* mutant: every save stamps updatedAt, modified or not
SavedApplications_AlwaysStamps(r) ==
    IF req[r].app \in DOMAIN applications
    THEN [applications EXCEPT ![req[r].app].status = req[r].status,
                              ![req[r].app].updatedAt = Now]
    ELSE applications

\* application.status = status; await application.save(): a path set to the
\* value it already holds is not modified, and an unmodified document is
\* not written; a written one gets updatedAt from the schema's timestamps
\* (the schema has no other time field than createdAt and updatedAt)
SavedApplications(r) ==
    IF req[r].app \in DOMAIN applications /\ req[r].status # req[r].previousStatus
    THEN [applications EXCEPT ![req[r].app].status = req[r].status,
                              ![req[r].app].updatedAt = Now]
    ELSE applications

\* mutant: after the save an accepted request goes to the ledger at once
Save_LedgerFirst(r) ==
    /\ pc[r] = "save"
    /\ applications' = SavedApplications(r)
    /\ pc' = [pc EXCEPT ![r] =
         IF req[r].status = "accepted" THEN "ledger"
         ELSE IF NotificationDue(req[r].status, req[r].previousStatus)
         THEN "notify" ELSE "done"]
    /\ UNCHANGED <<jobs, hiresCount, rejectionsCount, hiringStats, financialStats,
                   transactions, notifications, req, calls, lastPayment, jobCall, jobDeletion, applying, uncounted>>
    /\ Touched(r)

\* mutant: saving an accepted application also completes its job
Save_CompletesJob(r) ==
    /\ pc[r] = "save"
    /\ applications' = SavedApplications(r)
    /\ jobs' = IF req[r].status = "accepted"
               THEN [jobs EXCEPT ![JobOf(r)].status = "completed"]
               ELSE jobs
    /\ pc' = [pc EXCEPT ![r] =
         IF NotificationDue(req[r].status, req[r].previousStatus)
         THEN "notify" ELSE "done"]
    /\ UNCHANGED <<hiresCount, rejectionsCount, hiringStats, financialStats,
                   transactions, notifications, req, calls, lastPayment, jobCall, jobDeletion, applying, uncounted>>
    /\ Touched(r)

\* application.status = status; await application.save()
Save(r) ==
    /\ pc[r] = "save"
    /\ applications' = SavedApplications(r)
    /\ pc' = [pc EXCEPT ![r] =
         IF NotificationDue(req[r].status, req[r].previousStatus)
         THEN "notify" ELSE "done"]
    /\ UNCHANGED <<jobs, hiresCount, rejectionsCount, hiringStats, financialStats,
                   transactions, notifications, req, calls, lastPayment, jobCall, jobDeletion, applying, uncounted>>
    /\ Touched(r)

\* mutant: a notification that throws puts the previous status back
Notify_RevertsOnFailure(r) ==
    /\ pc[r] = "notify"
    /\ \E ok \in BOOLEAN :
         IF ok
         THEN /\ notifications' = notifications (+) SetToBag({
                    NotificationFor(req[r].status, ApplicantOf(r), req[r].actor,
                                    JobOf(r), req[r].app)})
              /\ pc' = [pc EXCEPT ![r] =
                    IF req[r].status = "accepted" THEN "ledger" ELSE "done"]
              /\ req' = req
              /\ applications' = applications
         ELSE /\ notifications' = notifications
              /\ pc' = [pc EXCEPT ![r] = "done"]
              /\ req' = [req EXCEPT ![r].warn = "notify"]
              /\ applications' =
                    [applications EXCEPT ![req[r].app].status = req[r].previousStatus]
    /\ UNCHANGED <<jobs, hiresCount, rejectionsCount, hiringStats,
                   financialStats, transactions, calls, lastPayment, jobCall, jobDeletion, applying, uncounted>>
    /\ Touched(r)

\* await NotificationService.notify...(); a throw lands in the catch
Notify(r) ==
    /\ pc[r] = "notify"
    /\ \E ok \in BOOLEAN :
         IF ok
         THEN /\ notifications' = notifications (+) SetToBag({
                    NotificationFor(req[r].status, ApplicantOf(r), req[r].actor,
                                    JobOf(r), req[r].app)})
              /\ pc' = [pc EXCEPT ![r] =
                    IF req[r].status = "accepted" THEN "ledger" ELSE "done"]
              /\ req' = req
         ELSE /\ notifications' = notifications
              /\ pc' = [pc EXCEPT ![r] = "done"]
              /\ req' = [req EXCEPT ![r].warn = "notify"]
    /\ UNCHANGED <<applications, jobs, hiresCount, rejectionsCount, hiringStats,
                   financialStats, transactions, calls, lastPayment, jobCall, jobDeletion, applying, uncounted>>
    /\ Touched(r)

\* await TransactionService.createJobPayment({...}), with the save hooks
Ledger(r) ==
    /\ pc[r] = "ledger"
    /\ LET doc == JobPayment(JobOf(r), req[r].actor, ApplicantOf(r),
                             PaymentAmount(jobs[JobOf(r)]), {}) IN
       \E ok \in BOOLEAN :
         IF ok /\ TransactionValid(doc)
         THEN /\ transactions' = transactions (+) SetToBag({doc})
              /\ financialStats' = TransactionPostSave(financialStats, doc)
              /\ pc' = [pc EXCEPT ![r] = "inc"]
              /\ req' = req
         ELSE /\ UNCHANGED <<transactions, financialStats>>
              /\ pc' = [pc EXCEPT ![r] = "done"]
              /\ req' = [req EXCEPT ![r].warn = "ledger"]
    /\ UNCHANGED <<applications, jobs, hiresCount, rejectionsCount, hiringStats,
                   notifications, calls, lastPayment, jobCall, jobDeletion, applying, uncounted>>
    /\ Touched(r)

\* mutant: the counter is read when the request starts its side effects and
\* written back plus one, so an increment made in between by a request that
\* is running at the same time is lost
IncHires_LostUpdate(r) ==
    /\ pc[r] = "inc"
    /\ \E ok \in BOOLEAN :
         IF ok
         THEN /\ hiresCount' = [hiresCount EXCEPT ![req[r].actor] =
                    IF \E q \in Reqs \ {r} : pc[q] = "done" /\ req[q].warn = "none"
                          /\ req[q].status = "accepted" /\ req[q].actor = req[r].actor
                          /\ dirty[q]
                    THEN @ ELSE @ + 1]
              /\ req' = req
         ELSE /\ hiresCount' = hiresCount
              /\ req' = [req EXCEPT ![r].warn = "inc"]
    /\ pc' = [pc EXCEPT ![r] = "done"]
    /\ UNCHANGED <<applications, jobs, rejectionsCount, hiringStats, financialStats,
                   transactions, notifications, calls, lastPayment, jobCall,
                   jobDeletion, applying, uncounted>>
    /\ Touched(r)

\* mutant: the hires increment is left out
IncHires_NoIncrement(r) ==
    /\ pc[r] = "inc"
    /\ pc' = [pc EXCEPT ![r] = "done"]
    /\ UNCHANGED <<applications, jobs, hiresCount, rejectionsCount, hiringStats,
                   financialStats, transactions, notifications, req, calls,
                   lastPayment, jobCall, jobDeletion, applying, uncounted>>
    /\ Touched(r)

\* await User.findByIdAndUpdate(userId, {$inc: {"employerProfile.hiresCount": 1}})
IncHires(r) ==
    /\ pc[r] = "inc"
    /\ \E ok \in BOOLEAN :
         IF ok
         THEN /\ hiresCount' = [hiresCount EXCEPT ![req[r].actor] = @ + 1]
              /\ req' = req
         ELSE /\ hiresCount' = hiresCount
              /\ req' = [req EXCEPT ![r].warn = "inc"]
    /\ pc' = [pc EXCEPT ![r] = "done"]
    /\ UNCHANGED <<applications, jobs, rejectionsCount, hiringStats, financialStats,
                   transactions, notifications, calls, lastPayment, jobCall, jobDeletion, applying, uncounted>>
    /\ Touched(r)

\* TransactionService.createJobPayment called on its own: new Transaction(...)
\* and save(), which validates, stores and runs the save hooks, or throws
createJobPayment(jobId, employerId, specialistId, amount, pct) ==
    /\ BagCardinality(transactions) < MaxPayments
    /\ LET doc == JobPayment(jobId, employerId, specialistId, amount, pct) IN
         IF TransactionValid(doc)
         THEN /\ transactions' = transactions (+) SetToBag({doc})
              /\ financialStats' = TransactionPostSave(financialStats, doc)
              /\ lastPayment' = [amount |-> amount, pct |-> pct, outcome |-> "saved"]
         ELSE /\ UNCHANGED <<transactions, financialStats>>
              /\ lastPayment' = [amount |-> amount, pct |-> pct,
                                 outcome |-> "ValidationError"]
    /\ UNCHANGED <<applications, jobs, hiresCount, rejectionsCount, hiringStats,
                   notifications, pc, req, dirty, calls, jobCall, jobDeletion, applying, uncounted>>

\* PUT /jobs/:id/complete: Job.findById, owner check, job.status = "completed"
\* and save, then Application.findOne({job, status: "accepted"}) and, when one
\* is found, Promise.all of the two notifyJobCompleted; a notification that
\* throws leaves the job saved and answers 500 through next(error)
completeJob(id, userId) ==
    /\ calls < MaxCalls
    /\ calls' = calls + 1
    /\ IF id \notin DOMAIN jobs
       THEN /\ jobCall' = [actor |-> userId, job |-> id, code |-> 404]
            /\ UNCHANGED <<jobs, notifications>>
       ELSE IF jobs[id].postedBy # userId
       THEN /\ jobCall' = [actor |-> userId, job |-> id, code |-> 403]
            /\ UNCHANGED <<jobs, notifications>>
       ELSE /\ jobs' = [jobs EXCEPT ![id].status = "completed"]
            /\ LET acceptedApplication ==
                     {a \in DOMAIN applications :
                         applications[a].job = id /\ applications[a].status = "accepted"}
               IN IF acceptedApplication = {}
                  THEN /\ notifications' = notifications
                       /\ jobCall' = [actor |-> userId, job |-> id, code |-> 200]
                  ELSE \E a \in acceptedApplication :
                       LET both == {notifyJobCompleted(userId, id, TRUE),
                                    notifyJobCompleted(applications[a].applicant, id, FALSE)}
                       IN \E saved \in SUBSET both :
                            /\ notifications' = notifications (+) SetToBag(saved)
                            /\ jobCall' = [actor |-> userId, job |-> id,
                                           code |-> IF saved = both THEN 200 ELSE 500]
    /\ UNCHANGED <<applications, hiresCount, rejectionsCount, hiringStats,
                   financialStats, transactions, pc, req, dirty, lastPayment,
                   jobDeletion, applying, uncounted>>

\* mutant: the body lists the step whose write threw
Response_WithWarnings(r) ==
    [success |-> TRUE,
     message |-> <<"Application", req[r].status, "successfully">>,
     application |-> [id |-> req[r].app, status |-> req[r].status,
                      applicant |-> ApplicantOf(r), job |-> JobOf(r)],
     warnings |-> IF req[r].warn = "none" THEN <<>> ELSE <<req[r].warn>>]

\* res.status(200).json({...}), the body sent once the switch and its catch
\* are over; application.status is the in-memory document's, the one just set
\* (the applicant's and the job's display fields and updatedAt are left out)
Response(r) ==
    [success |-> TRUE,
     message |-> <<"Application", req[r].status, "successfully">>,
     application |-> [id |-> req[r].app, status |-> req[r].status,
                      applicant |-> ApplicantOf(r), job |-> JobOf(r)]]

(* --------------------------- applyForJob, by await --------------------- *)
\* the id the next Application document gets
NextAppId ==
    IF "a3" \notin DOMAIN applications THEN "a3"
    ELSE IF "a4" \notin DOMAIN applications THEN "a4" ELSE "a5"

\* the applications stored for a (job, applicant) pair
ApplicationsOf(jobId, userId) ==
    {a \in DOMAIN applications :
        applications[a].job = jobId /\ applications[a].applicant = userId}

\* a new request runs in the first slot that holds no running request
FirstFreeApply == IF applying["p1"].pc \in {"idle", "done"} THEN "p1" ELSE "p2"

NoApplyRunning == \A p \in Applies : applying[p].pc \in {"idle", "done"}

\* mutant: in the post-save hook the document still counts as new
IsNewAfterSave_StillNew == TRUE

\* ApplicationSchema.post("save") tests this.isNew, which Mongoose has
\* already cleared when the post hooks of the insert run
IsNewAfterSave == FALSE

\* ApplicationSchema.post("save"): if (this.isNew) $inc applicationsCount
ApplicationPostSave(js, doc, isNew) ==
    IF isNew /\ doc.job \in DOMAIN js
    THEN [js EXCEPT ![doc.job].applicationsCount = @ + 1]
    ELSE js

\* the checks up to Application.findOne and the deadline: User.findById and
\* the role, Job.findById and job.status, the existing application, the
\* deadline (late: new Date() is past job.applicationDeadline).  The user and
\* the job fields read here are changed by no step of applyForJob, so the
\* reads form one step with findOne.
applyForJob(p, userId, jobId, late) ==
    /\ applying[p].pc \in {"idle", "done"}
    /\ p = FirstFreeApply
    /\ calls < MaxCalls
    /\ calls' = calls + 1
    /\ LET code == IF RoleOf(userId) # "specialist" THEN 403
                   ELSE IF jobId \notin DOMAIN jobs THEN 404
                   ELSE IF jobs[jobId].status # "active" THEN 400
                   ELSE IF ApplicationsOf(jobId, userId) # {} THEN 400
                   ELSE IF late THEN 400
                   ELSE 0
       IN applying' = [applying EXCEPT ![p] =
             [pc |-> IF code = 0 THEN "save" ELSE "done", actor |-> userId,
              job |-> jobId, app |-> MissingApp, code |-> code]]
    /\ UNCHANGED <<db, pc, req, dirty, lastPayment, jobCall, jobDeletion, uncounted>>

\* mutant: the collection has no unique index on (job, applicant)
ApplySave_NoUniqueIndex(p) ==
    /\ applying[p].pc = "save"
    /\ LET id == NextAppId
           doc == [job |-> applying[p].job, applicant |-> applying[p].actor,
                   status |-> "pending", createdAt |-> Now, updatedAt |-> Now]
       IN /\ applications' = [a \in DOMAIN applications \cup {id} |->
                                 IF a = id THEN doc ELSE applications[a]]
          /\ jobs' = ApplicationPostSave(jobs, doc, IsNewAfterSave)
          /\ applying' = [applying EXCEPT ![p].pc = "notify", ![p].app = id]
    /\ UNCHANGED <<hiresCount, rejectionsCount, hiringStats, financialStats,
                   transactions, notifications, pc, req, dirty, calls,
                   lastPayment, jobCall, jobDeletion, uncounted>>

\* await application.save(): the unique index on (job, applicant) rejects a
\* second document of the pair with a duplicate key error, which the outer
\* catch hands to next(error); a stored document runs the post-save hook
ApplySave(p) ==
    /\ applying[p].pc = "save"
    /\ LET id == NextAppId
           doc == [job |-> applying[p].job, applicant |-> applying[p].actor,
                   status |-> "pending", createdAt |-> Now, updatedAt |-> Now]
       IN IF ApplicationsOf(applying[p].job, applying[p].actor) # {}
          THEN /\ applying' = [applying EXCEPT ![p].pc = "done", ![p].code = 500]
               /\ UNCHANGED <<applications, jobs>>
          ELSE /\ applications' = [a \in DOMAIN applications \cup {id} |->
                                      IF a = id THEN doc ELSE applications[a]]
               /\ jobs' = ApplicationPostSave(jobs, doc, IsNewAfterSave)
               /\ applying' = [applying EXCEPT ![p].pc = "notify", ![p].app = id]
    /\ UNCHANGED <<hiresCount, rejectionsCount, hiringStats, financialStats,
                   transactions, notifications, pc, req, dirty, calls,
                   lastPayment, jobCall, jobDeletion, uncounted>>

\* try { await NotificationService.notifyNewApplication(...) } catch: logged
ApplyNotify(p) ==
    /\ applying[p].pc = "notify"
    /\ \E ok \in BOOLEAN :
         notifications' =
            IF ok /\ applying[p].job \in DOMAIN jobs
            THEN notifications (+) SetToBag({
                    notifyNewApplication(jobs[applying[p].job].postedBy,
                       applying[p].actor, applying[p].job, applying[p].app)})
            ELSE notifications
    /\ applying' = [applying EXCEPT ![p].pc = "count"]
    /\ UNCHANGED <<applications, jobs, hiresCount, rejectionsCount, hiringStats,
                   financialStats, transactions, pc, req, dirty, calls,
                   lastPayment, jobCall, jobDeletion, uncounted>>

\* await Job.findByIdAndUpdate(jobId, {$inc: {applicationsCount: 1}}), then
\* 201; an update that throws leaves the application stored and answers
\* through next(error)
ApplyCount(p) ==
    /\ applying[p].pc = "count"
    /\ applying[p].job \in DOMAIN jobs
    /\ \E ok \in BOOLEAN :
         IF ok
         THEN /\ jobs' = [jobs EXCEPT ![applying[p].job].applicationsCount = @ + 1]
              /\ applying' = [applying EXCEPT ![p].pc = "done", ![p].code = 201]
              /\ uncounted' = uncounted
         ELSE /\ jobs' = jobs
              /\ applying' = [applying EXCEPT ![p].pc = "done", ![p].code = 500]
              /\ uncounted' = [uncounted EXCEPT ![applying[p].job] = @ + 1]
    /\ UNCHANGED <<applications, hiresCount, rejectionsCount, hiringStats,
                   financialStats, transactions, notifications, pc, req, dirty,
                   calls, lastPayment, jobCall, jobDeletion>>

(* ------------- deleteJob and the Job model's delete hook --------------- *)
\* Transaction.updateMany({job}, {$set: {status: "cancelled"}}) on one
\* document; updateMany runs no schema validator
Cancelled(t, id) == IF t.job = id THEN [t EXCEPT !.status = "cancelled"] ELSE t

\* DELETE /jobs/:id up to Job.findByIdAndDelete: User.findById and the role,
\* Job.findById, the owner check, then the removal of the job document.  The
\* hook's first update, of the employer's jobPostsCount, touches nothing
\* that is modelled.
deleteJob(id, userId) ==
    /\ jobDeletion.pc \in {"idle", "done"}
    /\ calls < MaxCalls
    /\ calls' = calls + 1
    /\ LET code == IF RoleOf(userId) # "partner" THEN 403
                   ELSE IF id \notin DOMAIN jobs THEN 404
                   ELSE IF jobs[id].postedBy # userId THEN 403
                   ELSE 0
       IN /\ jobDeletion' = [pc |-> IF code = 0 THEN "applications" ELSE "done",
                             actor |-> userId, job |-> id, code |-> code]
          /\ jobs' = IF code = 0 THEN [j \in DOMAIN jobs \ {id} |-> jobs[j]] ELSE jobs
    /\ UNCHANGED <<applications, hiresCount, rejectionsCount, hiringStats,
                   financialStats, transactions, notifications, pc, req, dirty,
                   lastPayment, jobCall, applying, uncounted>>

\* JobSchema.post("findOneAndDelete"): Application.deleteMany({job}); a throw
\* ends the hook and the request, through next(error)
DeleteApplications ==
    /\ jobDeletion.pc = "applications"
    /\ \E ok \in BOOLEAN :
         IF ok
         THEN /\ applications' =
                    [a \in {b \in DOMAIN applications :
                               applications[b].job # jobDeletion.job} |-> applications[a]]
              /\ jobDeletion' = [jobDeletion EXCEPT !.pc = "notifications"]
         ELSE /\ applications' = applications
              /\ jobDeletion' = [jobDeletion EXCEPT !.pc = "done", !.code = 500]
    /\ UNCHANGED <<jobs, hiresCount, rejectionsCount, hiringStats, financialStats,
                   transactions, notifications, pc, req, dirty, calls,
                   lastPayment, jobCall, applying, uncounted>>

\* JobSchema.post("findOneAndDelete"): Notification.deleteMany({relatedJob})
DeleteNotifications ==
    /\ jobDeletion.pc = "notifications"
    /\ \E ok \in BOOLEAN :
         IF ok
         THEN /\ notifications' =
                    [n \in {k \in DOMAIN notifications :
                               k.relatedJob # jobDeletion.job} |-> notifications[n]]
              /\ jobDeletion' = [jobDeletion EXCEPT !.pc = "transactions"]
         ELSE /\ notifications' = notifications
              /\ jobDeletion' = [jobDeletion EXCEPT !.pc = "done", !.code = 500]
    /\ UNCHANGED <<applications, jobs, hiresCount, rejectionsCount, hiringStats,
                   financialStats, transactions, pc, req, dirty, calls,
                   lastPayment, jobCall, applying, uncounted>>

\* JobSchema.post("findOneAndDelete"): Transaction.updateMany({job},
\* {$set: {status: "cancelled"}}), then the 200 of deleteJob
CancelTransactions ==
    /\ jobDeletion.pc = "transactions"
    /\ \E ok \in BOOLEAN :
         IF ok
         THEN /\ transactions' =
                    BagOfAll(LAMBDA t : Cancelled(t, jobDeletion.job), transactions)
              /\ jobDeletion' = [jobDeletion EXCEPT !.pc = "done", !.code = 200]
         ELSE /\ transactions' = transactions
              /\ jobDeletion' = [jobDeletion EXCEPT !.pc = "done", !.code = 500]
    /\ UNCHANGED <<applications, jobs, hiresCount, rejectionsCount, hiringStats,
                   financialStats, notifications, pc, req, dirty, calls,
                   lastPayment, jobCall, applying, uncounted>>

Next ==
    \/ \E r \in Reqs, u \in Actors, a \in AppIds \cup {MissingApp}, s \in RequestedStatuses :
          Start(r, u, a, s)
    \/ \E r \in Reqs : Save(r)
    \/ \E r \in Reqs : Notify(r)
    \/ \E r \in Reqs : Ledger(r)
    \/ \E r \in Reqs : IncHires(r)

Spec == Init /\ [][Next]_vars

\* the same handler with the requests sent one after the other: a request
\* starts only when no other is running
Quiet == \A r \in Reqs : pc[r] \in {"idle", "done"}

NextSeq ==
    \/ /\ Quiet
       /\ \E r \in Reqs, u \in Actors, a \in AppIds \cup {MissingApp},
             s \in RequestedStatuses : Start(r, u, a, s)
    \/ \E r \in Reqs : Save(r)
    \/ \E r \in Reqs : Notify(r)
    \/ \E r \in Reqs : Ledger(r)
    \/ \E r \in Reqs : IncHires(r)

SpecSeq == Init /\ [][NextSeq]_vars

\* createJobPayment on its own, over every argument of the bounded sets
NextLedger ==
    \E j \in JobIds, e \in {"e1"}, sp \in {"s1", "s2"},
       a \in PaymentAmounts, p \in PaymentPercentages :
          createJobPayment(j, e, sp, a, p)

SpecLedger == Init /\ [][NextLedger]_vars

\* the status updates one after the other, together with completeJob requests
NextJob ==
    \/ /\ Quiet
       /\ \E r \in Reqs, u \in Actors, a \in AppIds \cup {MissingApp},
             s \in RequestedStatuses : Start(r, u, a, s)
    \/ \E r \in Reqs : Save(r)
    \/ \E r \in Reqs : Notify(r)
    \/ \E r \in Reqs : Ledger(r)
    \/ \E r \in Reqs : IncHires(r)
    \/ /\ Quiet
       /\ \E j \in JobIds \cup {MissingJob}, u \in Actors : completeJob(j, u)

SpecJob == Init /\ [][NextJob]_vars

\* applyForJob requests, two at a time: the specialists and a partner apply
\* for the two jobs and for a job that does not exist
NextApply ==
    \/ \E p \in Applies, u \in {"s1", "s2", "e1"}, j \in JobIds \cup {MissingJob},
          late \in BOOLEAN : applyForJob(p, u, j, late)
    \/ \E p \in Applies : ApplySave(p)
    \/ \E p \in Applies : ApplyNotify(p)
    \/ \E p \in Applies : ApplyCount(p)

SpecApply == Init /\ [][NextApply]_vars

\* the status updates one after the other, together with a deleteJob request
\* whose hook advances between them
NextDelete ==
    \/ /\ Quiet
       /\ \E r \in Reqs, u \in Actors, a \in AppIds \cup {MissingApp},
             s \in RequestedStatuses : Start(r, u, a, s)
    \/ \E r \in Reqs : Save(r)
    \/ \E r \in Reqs : Notify(r)
    \/ \E r \in Reqs : Ledger(r)
    \/ \E r \in Reqs : IncHires(r)
    \/ /\ Quiet
       /\ \E j \in JobIds \cup {MissingJob}, u \in Actors : deleteJob(j, u)
    \/ Quiet /\ DeleteApplications
    \/ Quiet /\ DeleteNotifications
    \/ Quiet /\ CancelTransactions

SpecDelete == Init /\ [][NextDelete]_vars

\* status updates and completeJob requests, one after the other, when both
\* applications are on the same job
SpecSameJob == InitSameJob /\ [][NextJob]_vars

(* ================================ claims =============================== *)
\* what a request has done so far, read off its position and its catch
Owner(a) == jobs[applications[a].job].postedBy
ByOwner(r) == req[r].outcome = "ok"
Finished(r) == pc[r] = "done"
NotifyFired(r) ==
    /\ ByOwner(r) /\ pc[r] \in {"ledger", "inc", "done"}
    /\ NotificationDue(req[r].status, req[r].previousStatus)
    /\ req[r].warn # "notify"
LedgerFired(r) ==
    /\ ByOwner(r) /\ pc[r] \in {"inc", "done"}
    /\ req[r].status = "accepted" /\ req[r].warn \notin {"notify", "ledger"}
HiresFired(r) ==
    /\ ByOwner(r) /\ pc[r] = "done"
    /\ req[r].status = "accepted" /\ req[r].warn = "none"

\* a request's step from one position of the handler to the next
Moves(r, from, to) == pc[r] = from /\ pc'[r] = to

\* the edges of the transition table: pending -> {reviewed, accepted,
\* rejected, withdrawn}, reviewed -> {accepted, rejected, withdrawn}
AllowedEdges ==
    ({"pending"} \X {"reviewed", "accepted", "rejected", "withdrawn"})
      \cup ({"reviewed"} \X {"accepted", "rejected", "withdrawn"})

(* C1 as stated: an application's status changes only along the allowed    *)
(* edges; reviewed never goes back to pending and an accepted, rejected or *)
(* withdrawn application never changes status.                             *)
C1_OnlyAllowedEdges ==
    [][\A a \in AppIds :
         applications'[a].status # applications[a].status
           => <<applications[a].status, applications'[a].status>> \in AllowedEdges]_vars

(* C1 amended: an application's status changes only in the save of a       *)
(* request sent by the partner who owns the application's job, only to the *)
(* status that request asked for, and only to one of pending, reviewed,    *)
(* accepted, rejected; between these four every change can happen.         *)
C1_StatusChangesOnlyByOwnerToAdmittedStatus ==
    [][\A a \in AppIds :
         applications'[a].status # applications[a].status
           => \E r \in Reqs :
                 /\ pc[r] = "save" /\ pc'[r] # "save"
                 /\ req[r].app = a
                 /\ req[r].actor = Owner(a) /\ RoleOf(req[r].actor) = "partner"
                 /\ applications'[a].status = req[r].status
                 /\ req[r].status \in ApplicationStatuses]_vars

\* witness: a reviewed application has been set back to pending
C1_ReviewedBackToPending ==
    \E r \in Reqs :
        /\ Finished(r) /\ ByOwner(r)
        /\ req[r].previousStatus = "reviewed" /\ req[r].status = "pending"
        /\ applications[req[r].app].status = "pending"

\* the stored documents an accept of application a writes
PaymentsFor(a) ==
    { t \in BagToSet(transactions) :
        /\ t.type = "job_payment" /\ t.job = applications[a].job
        /\ t.payee = applications[a].applicant }
PaymentCount(a) ==
    LET ts == PaymentsFor(a) IN
      IF ts = {} THEN 0
      ELSE LET Sum[S \in SUBSET ts] ==
                 IF S = {} THEN 0
                 ELSE LET t == CHOOSE x \in S : TRUE
                      IN CopiesIn(t, transactions) + Sum[S \ {t}]
           IN Sum[ts]
AcceptedNotification(a) ==
    notifyApplicationAccepted(applications[a].applicant, Owner(a),
                              applications[a].job, a)
AcceptedNotificationCount(a) == CopiesIn(AcceptedNotification(a), notifications)

(* C2 as stated: an accept sent again for an application that is already   *)
(* accepted leaves one job_payment Transaction for that job and applicant  *)
(* and one accepted notification, as a single accept does.                 *)
C2_RepeatedAcceptLeavesOne ==
    \A r \in Reqs :
        ( /\ Finished(r) /\ ByOwner(r)
          /\ req[r].status = "accepted" /\ req[r].previousStatus = "accepted" )
        => /\ PaymentCount(req[r].app) <= 1
           /\ AcceptedNotificationCount(req[r].app) <= 1

(* C3 as stated: of two requests that set the same application to accepted *)
(* and that both loaded it before either saved, at most one creates the    *)
(* Transaction, sends the accepted notification and increments hiresCount. *)
C3_ConcurrentAcceptsFireOnce ==
    \A r1, r2 \in Reqs :
        ( /\ r1 # r2
          /\ ByOwner(r1) /\ ByOwner(r2)
          /\ req[r1].app = req[r2].app
          /\ req[r1].status = "accepted" /\ req[r2].status = "accepted"
          /\ req[r1].previousStatus # "accepted"
          /\ req[r2].previousStatus # "accepted" )
        => ~( /\ NotifyFired(r1) /\ LedgerFired(r1) /\ HiresFired(r1)
              /\ NotifyFired(r2) /\ LedgerFired(r2) /\ HiresFired(r2) )

\* a request the handler does not refuse for who sends it or what it names:
\* the job's owner, a partner, asks for a status the validator admits
OwnerRequest(r) ==
    /\ pc[r] # "idle"
    /\ req[r].app \in DOMAIN applications
    /\ req[r].actor = Owner(req[r].app) /\ RoleOf(req[r].actor) = "partner"
    /\ req[r].status \in ApplicationStatuses

AcceptPayment(r) ==
    JobPayment(JobOf(r), req[r].actor, ApplicantOf(r),
               PaymentAmount(jobs[JobOf(r)]), {})

C6_ErrorsPersistNothing ==
    \A r \in Reqs : (Finished(r) /\ req[r].code # 200) => ~dirty[r]

\* witness: a partner's request was refused with 403 on an application that
\* had already been accepted, and the application is still accepted
C6_RefusedOnChangedApplication ==
    \E r \in Reqs :
        /\ Finished(r) /\ req[r].outcome = "NotOwner" /\ req[r].code = 403
        /\ applications[req[r].app].status = "accepted"
        /\ req[r].status = "rejected"

(* C7: a request for reviewed, accepted or rejected on an existing         *)
(* application gets past the checks only when its sender posted the        *)
(* application's job; from any other sender it ends with 403 and has       *)
(* written nothing.                                                        *)
C7_OnlyTheJobOwnerTransitions ==
    \A r \in Reqs :
        ( /\ pc[r] # "idle"
          /\ req[r].app \in DOMAIN applications
          /\ req[r].status \in {"reviewed", "accepted", "rejected"} )
        => /\ (req[r].code = 200 => req[r].actor = Owner(req[r].app))
           /\ (req[r].actor # Owner(req[r].app)
                 => (Finished(r) /\ req[r].code = 403 /\ ~dirty[r]))

\* witness: another partner asked to accept and was refused
C7_OtherPartnerRefused ==
    \E r \in Reqs :
        /\ Finished(r) /\ req[r].actor = "e2" /\ req[r].app = "a1"
        /\ req[r].status = "accepted" /\ req[r].code = 403
        /\ applications["a1"].status = "pending"

C9_NetPlusFeeIsAmount ==
    \A t \in BagToSet(transactions) : t.netAmount + t.platformFee = t.amount

\* witness: a payment stored from a call that supplied its own percentage
\* and left a fee with a fractional part (7 at 15%: 1.05)
C9_PaymentWithSuppliedPercentage ==
    /\ lastPayment.outcome = "saved"
    /\ lastPayment.pct = {15} /\ lastPayment.amount = 7
    /\ \E t \in BagToSet(transactions) :
          t.amount = 700 /\ t.platformFee = 105 /\ t.netAmount = 595

(* C10: when the owner of a job with salaryMax = m > 0 accepts an          *)
(* application and the writes before it do not fail, the ledger step       *)
(* stores one Transaction with amount m, platformFee 10% of m, netAmount   *)
(* m - platformFee, the owner as payer and the applicant as payee; the     *)
(* accept reaches that step whenever its notification was written.         *)
C10_AcceptCreatesPayment ==
    /\ [](\A r \in Reqs :
            ( /\ Finished(r) /\ OwnerRequest(r) /\ req[r].status = "accepted"
              /\ req[r].warn \in {"none", "inc"} )
            => LedgerFired(r))
    /\ [][\A r \in Reqs :
            ( /\ Moves(r, "ledger", "inc")
              /\ jobs[JobOf(r)].salaryMax > 0 )
            => LET m == Hundredths(jobs[JobOf(r)].salaryMax) IN
                 transactions' = transactions (+) SetToBag({
                    [type |-> "job_payment", amount |-> m,
                     platformFee |-> (m * 10) \div 100,
                     netAmount |-> m - (m * 10) \div 100,
                     payer |-> Owner(req[r].app),
                     payee |-> applications[req[r].app].applicant,
                     job |-> applications[req[r].app].job,
                     status |-> "completed"]})]_vars

\* witness: the accept on the job with salaryMax = 1000 has stored its
\* payment of 1000 with fee 100 and net 900, in hundredths
C10_PaymentOfThousand ==
    \E r \in Reqs :
        /\ Finished(r) /\ OwnerRequest(r) /\ req[r].status = "accepted"
        /\ req[r].warn = "none"
        /\ jobs[JobOf(r)].salaryMax = 1000
        /\ BagIn([type |-> "job_payment", amount |-> 100000, platformFee |-> 10000,
                  netAmount |-> 90000, payer |-> req[r].actor,
                  payee |-> ApplicantOf(r), job |-> JobOf(r),
                  status |-> "completed"], transactions)

AcceptedOf(u) ==
    {a \in AppIds : Owner(a) = u /\ applications[a].status = "accepted"}

(* C12 as stated: after any sequence of transition calls, an employer's    *)
(* hiresCount equals its initial value, 0, plus the number of the           *)
(* employer's applications whose status is accepted.  A failed write can    *)
(* only leave the counter behind, so the claim is taken in the half that    *)
(* no failure breaks: the counter never exceeds that number.                *)
C12_HiresCountEqualsAccepted ==
    Quiet => \A u \in Users : hiresCount[u] <= Cardinality(AcceptedOf(u))

\* a finished request of the job's owner that changed the application's
\* status to the given one, with no write failed
Decided(r, status) ==
    /\ Finished(r) /\ ByOwner(r) /\ req[r].code = 200 /\ req[r].warn = "none"
    /\ req[r].status = status /\ req[r].previousStatus # status

(* C13 as stated: a successful transition of an application to rejected    *)
(* increments the job owner's rejectionsCount and hiringStats               *)
(* .totalRejections by one each; both start at 0, so after such a           *)
(* transition neither is 0.                                                 *)
C13_RejectIncrementsRejections ==
    \A r \in Reqs :
        Decided(r, "rejected")
            => /\ rejectionsCount[req[r].actor] >= 1
               /\ hiringStats[req[r].actor].totalRejections >= 1

\* the stored rate (a set, empty when the field is absent) holds n / d x 100,
\* or 0 when d is 0
RateIs(stored, n, d) ==
    \E x \in stored : IF d = 0 THEN x = 0 ELSE x * d = n * 100

(* C14 as stated: after every transition to accepted or rejected the       *)
(* owner's stored hiringSuccessRate is totalHires / (totalHires +           *)
(* totalRejections) x 100 and the stored responseRate is (totalHires +      *)
(* totalRejections) / totalApplicationsReceived x 100, each 0 when its      *)
(* denominator is 0.                                                        *)
C14_StoredRatesFollowCounters ==
    \A r \in Reqs :
        (Decided(r, "accepted") \/ Decided(r, "rejected"))
            => LET stats == hiringStats[req[r].actor]
                   decisions == stats.totalHires + stats.totalRejections
               IN /\ RateIs(stats.hiringSuccessRate, stats.totalHires, decisions)
                  /\ RateIs(stats.responseRate, decisions,
                            stats.totalApplicationsReceived)

(* C15: when the notification write or the ledger write (or the counter    *)
(* update after them) fails once the new status is saved, the step that     *)
(* fails ends the request without writing any application, the request is   *)
(* answered 200, and, requests being sent one after the other, the          *)
(* application holds the requested status when the request has finished.    *)
C15_SideEffectFailureKeepsStatus ==
    /\ [](\A r \in Reqs :
            (Finished(r) /\ req[r].warn # "none")
                => /\ req[r].code = 200
                   /\ applications[req[r].app].status = req[r].status)
    /\ [][\A r \in Reqs :
            (req[r].warn = "none" /\ req'[r].warn # "none")
                => applications' = applications /\ pc'[r] = "done"]_vars

\* a1 was accepted and notified, the ledger write failed: a1 is still
\* accepted, no payment is stored and the request was answered 200
C15_LedgerFailedStatusKept ==
    \E r \in Reqs :
        /\ Finished(r) /\ req[r].warn = "ledger" /\ req[r].code = 200
        /\ req[r].app = "a1" /\ req[r].previousStatus = "pending"
        /\ applications["a1"].status = "accepted"
        /\ PaymentCount("a1") = 0 /\ AcceptedNotificationCount("a1") = 1

C18_NonPositiveAmountFails ==
    (lastPayment.outcome # "none" /\ lastPayment.amount <= 0)
        => /\ lastPayment.outcome # "saved"
           /\ \A t \in BagToSet(transactions) : t.amount > 0

\* the time fields the transition table would stamp, by status
StampOf(status) ==
    CASE status = "reviewed" -> "reviewedAt"
      [] status = "accepted" -> "hiredAt"
      [] status = "rejected" -> "rejectedAt"
      [] status = "withdrawn" -> "withdrawnAt"
      [] OTHER -> "createdAt"

(* C19 as stated: reviewedAt, hiredAt, rejectedAt and withdrawnAt are each  *)
(* set when the application's status first enters the corresponding state,  *)
(* so an application in one of these states holds that state's field.       *)
C19_StatusEntryIsStamped ==
    \A a \in AppIds : StampOf(applications[a].status) \in DOMAIN applications[a]

(* C19 amended: an application holds none of reviewedAt, hiredAt,           *)
(* rejectedAt, withdrawnAt; its only time fields are createdAt, never       *)
(* rewritten, and updatedAt, which a save that changes the status sets to   *)
(* the time of the save and which a call asking for the status the          *)
(* application already has leaves as it is.                                 *)
C19_OnlyUpdatedAtIsStamped ==
    /\ [](\A a \in AppIds :
            DOMAIN applications[a] \cap
               {"reviewedAt", "hiredAt", "rejectedAt", "withdrawnAt"} = {})
    /\ [][\A a \in AppIds :
            /\ applications'[a].createdAt = applications[a].createdAt
            /\ applications'[a].updatedAt # applications[a].updatedAt
                  => applications'[a].status # applications[a].status
            /\ applications'[a].status # applications[a].status
                  => applications'[a].updatedAt = Now]_vars

\* a1 was rejected by the first request and asked to be rejected again by
\* the second, which has finished: updatedAt is still the first request's
C19_RejectedTwiceStampedOnce ==
    \E r \in Reqs :
        /\ Finished(r) /\ ByOwner(r) /\ req[r].app = "a1"
        /\ req[r].status = "rejected" /\ req[r].previousStatus = "rejected"
        /\ calls = 2
        /\ applications["a1"].status = "rejected"
        /\ applications["a1"].updatedAt = 1

(* C20 as stated: on the first entry of an application to reviewed,         *)
(* analytics.timeToReview is set (to the whole hours since appliedAt), so   *)
(* an application that a request has moved to reviewed holds the field.     *)
C20_ReviewSetsTimeToReview ==
    \A r \in Reqs :
        Decided(r, "reviewed")
            => /\ "analytics" \in DOMAIN applications[req[r].app]
               /\ "timeToReview" \in DOMAIN applications[req[r].app].analytics

(* C21: a transition from pending to reviewed goes from the save to the     *)
(* notification and ends there; none of its steps creates a Transaction or   *)
(* changes a hires or financial counter, the save stores no notification,    *)
(* and the notification step, when its write succeeds, stores exactly one    *)
(* notification, whose recipient is the applicant.                           *)
C21_ReviewOnlyNotifiesApplicant ==
    [][\A r \in Reqs :
          (pc'[r] # pc[r] /\ pc[r] \in {"save", "notify"}
             /\ req[r].status = "reviewed" /\ req[r].previousStatus = "pending")
          => /\ pc'[r] = (IF pc[r] = "save" THEN "notify" ELSE "done")
             /\ UNCHANGED <<transactions, hiresCount, financialStats,
                            rejectionsCount, hiringStats, jobs>>
             /\ pc[r] = "save" => notifications' = notifications
             /\ (pc[r] = "notify" /\ req'[r].warn = "none")
                  => \E n \in BagToSet(notifications') :
                       /\ notifications' = notifications (+) SetToBag({n})
                       /\ n.recipient = applications[req[r].app].applicant
                       /\ n.relatedApplication = req[r].app]_vars

\* the owner's request has moved a1 from pending to reviewed and finished:
\* one notification, addressed to s1, no Transaction, no hire counted
C21_ReviewedAndNotified ==
    \E r \in Reqs :
        /\ Decided(r, "reviewed") /\ req[r].app = "a1"
        /\ req[r].previousStatus = "pending"
        /\ applications["a1"].status = "reviewed"
        /\ notifications = SetToBag({notifyApplicationReviewed("s1", "e1", "j1", "a1")})
        /\ transactions = EmptyBag
        /\ hiresCount["e1"] = 0 /\ financialStats["s1"] = NoStats

(* C22: the hiresCount update is an atomic increment: the step of a         *)
(* request that makes it raises the employer's counter by exactly one from   *)
(* the value it holds at that moment, whatever the other request is doing,   *)
(* so when the first two requests received ran at the same time, accepted    *)
(* two different applications of jobs of the same employer and lost no       *)
(* write, the counter is 2 higher than at the start, where it is 0.          *)
C22_ConcurrentAcceptsCountTwo ==
    /\ [][\A r \in Reqs :
            (pc[r] = "inc" /\ pc'[r] = "done" /\ req'[r].warn = "none")
                => hiresCount' = [hiresCount EXCEPT ![req[r].actor] = @ + 1]]_vars
    /\ []((calls = 2 /\ HiresFired("r1") /\ HiresFired("r2")
            /\ req["r1"].app # req["r2"].app /\ req["r1"].actor = req["r2"].actor)
              => hiresCount[req["r1"].actor] = 2)

\* the accept of a2 was received while the accept of a1 was running, and
\* both have finished with every write made
C22_BothAcceptedTogether ==
    /\ calls = 2 /\ HiresFired("r1") /\ HiresFired("r2")
    /\ req["r1"].app = "a1" /\ req["r2"].app = "a2"
    /\ applications["a1"].status = "accepted" /\ applications["a2"].status = "accepted"
    /\ hiresCount["e1"] = 2
    /\ BagCardinality(transactions) = 2

(* C23: in every state there is at most one Application per (job,          *)
(* applicant) pair, two interleaved applyForJob requests of the same pair    *)
(* included: the second save fails on the unique index.                      *)
C23_OneApplicationPerPair ==
    \A a, b \in DOMAIN applications :
        (applications[a].job = applications[b].job
           /\ applications[a].applicant = applications[b].applicant) => a = b

\* two requests of s2 for j1 both passed the check for an existing
\* application; one stored a3 and was answered 201, the other failed on the
\* index with 500
C23_SecondOfTwoRejectedByIndex ==
    /\ \A p \in Applies : applying[p].pc = "done" /\ applying[p].actor = "s2"
                              /\ applying[p].job = "j1"
    /\ {applying[p].code : p \in Applies} = {201, 500}
    /\ \E p \in Applies : applying[p].code = 500 /\ applying[p].app = MissingApp
    /\ ApplicationsOf("j1", "s2") = {"a3"}

(* C24 as stated: in every state, after the deletion of the job a           *)
(* Transaction refers to as well, every Transaction's status is one of       *)
(* pending, completed, failed.                                               *)
C24_TransactionStatusInEnum ==
    \A t \in BagToSet(transactions) : t.status \in TransactionStatuses

\* the number of completed job_payment Transactions of a payee and the sum of
\* their net amounts
CompletedPaymentsTo(u) ==
    {t \in BagToSet(transactions) :
        t.type = "job_payment" /\ t.status = "completed" /\ t.payee = u}

RECURSIVE CopiesCount(_)
CopiesCount(S) ==
    IF S = {} THEN 0
    ELSE LET t == CHOOSE x \in S : TRUE
         IN CopiesIn(t, transactions) + CopiesCount(S \ {t})

RECURSIVE NetAmountSum(_)
NetAmountSum(S) ==
    IF S = {} THEN 0
    ELSE LET t == CHOOSE x \in S : TRUE
         IN CopiesIn(t, transactions) * t.netAmount + NetAmountSum(S \ {t})

(* C25 as stated: after any sequence of operations a specialist's           *)
(* totalTransactions equals the number of completed job_payment              *)
(* Transactions in which they are payee, and totalEarned the sum of their    *)
(* netAmount.                                                                *)
C25_SpecialistStatsMatchLedger ==
    (Quiet /\ jobDeletion.pc \in {"idle", "done"}) =>
        \A u \in Users :
            /\ financialStats[u].specialistTransactions
                  = CopiesCount(CompletedPaymentsTo(u))
            /\ financialStats[u].totalEarned
                  = NetAmountSum(CompletedPaymentsTo(u))

(* C26 as stated: a transition on an application id that does not exist,    *)
(* or on an application whose job no longer exists, is answered 404 and      *)
(* changes nothing.                                                          *)
C26_MissingApplicationOrJobIsNotFound ==
    [][\A r \in Reqs :
          (req'[r] # req[r] /\ pc[r] \in {"idle", "done"}
             /\ updateApplicationStatusValidation(req'[r].status)
             /\ IsPartner(req'[r].actor)
             /\ \/ req'[r].app \notin DOMAIN applications
                \/ applications[req'[r].app].job \notin DOMAIN jobs)
          => /\ req'[r].code = 404
             /\ pc'[r] = "done" /\ db' = db]_vars

(* C27 as stated: on a transition to accepted, a failure of the accepted   *)
(* notification write prevents neither the ledger entry nor the hiresCount   *)
(* increment: when the request has finished, the application has a payment    *)
(* and the employer a hire.                                                  *)
C27_FailedNotificationStillPays ==
    \A r \in Reqs :
        (Finished(r) /\ ByOwner(r) /\ req[r].status = "accepted"
           /\ req[r].warn = "notify")
            => /\ PaymentCount(req[r].app) >= 1
               /\ hiresCount[req[r].actor] >= 1

(* C28 as stated: for every supplied percentage p, p = 0 included, the      *)
(* Transaction createJobPayment creates has platformFee = amount x p / 100   *)
(* and netAmount = amount - platformFee (10 is used only when none is        *)
(* supplied).                                                                *)
C28_SuppliedPercentageIsUsed ==
    \A p \in lastPayment.pct :
        lastPayment.outcome = "saved"
            => \E t \in BagToSet(transactions) :
                  /\ t.amount = Hundredths(lastPayment.amount)
                  /\ t.platformFee = PlatformFee(lastPayment.amount, p)
                  /\ t.netAmount = t.amount - t.platformFee

\* the applications that reference a job, and the applyForJob requests that
\* have stored theirs and not yet updated the counter
ApplicationsOn(j) == {a \in DOMAIN applications : applications[a].job = j}
BetweenSaveAndCount(j) ==
    {p \in Applies : applying[p].pc \in {"notify", "count"} /\ applying[p].job = j}

(* C29: a request answered 201 has raised its job's applicationsCount by    *)
(* exactly one, in its last step and in no other; so a job's counter,        *)
(* together with the requests that have stored their application and not     *)
(* yet counted it and with those whose counter update failed, equals the     *)
(* number of Applications that reference the job, and equals it alone when   *)
(* no request is running and none has failed.                                *)
C29_CountFollowsApplications ==
    /\ [](\A j \in DOMAIN jobs :
            jobs[j].applicationsCount + Cardinality(BetweenSaveAndCount(j))
               + uncounted[j] = Cardinality(ApplicationsOn(j)))
    /\ [][\A p \in Applies :
            applying'[p] # applying[p] =>
               IF applying'[p].code = 201
               THEN jobs' = [jobs EXCEPT ![applying[p].job].applicationsCount = @ + 1]
               ELSE jobs' = jobs]_vars

\* s2 has applied for j1 and was answered 201: j1 has two applications and
\* a counter of 2, and no request is running
C29_SecondApplicationCounted ==
    /\ NoApplyRunning
    /\ \E p \in Applies : applying[p].code = 201 /\ applying[p].job = "j1"
                            /\ applying[p].actor = "s2"
    /\ ApplicationsOn("j1") = {"a1", "a3"}
    /\ jobs["j1"].applicationsCount = 2
    /\ uncounted["j1"] = 0

(* C30 as stated: for every job, at most one application is in status      *)
(* accepted in any state.                                                    *)
C30_OneAcceptedPerJob ==
    \A j \in DOMAIN jobs :
        Cardinality({a \in DOMAIN applications :
            applications[a].job = j /\ applications[a].status = "accepted"}) <= 1

====
